---- MODULE Spec2Model ----
(***************************************************************************)
(* Model of lambda/python/index.py: the action-group Lambda of the         *)
(* plumbing assistant.  One request is one atomic step: the handler runs   *)
(* from the first line of its try block to the return of the envelope,     *)
(* every DynamoDB call it makes included.                                  *)
(*                                                                         *)
(* Python values are modelled as follows.                                  *)
(*   dict            a function whose DOMAIN is the set of its keys        *)
(*   None (as text)  the string "None" (what str(None) and an f-string     *)
(*                   print)                                                *)
(*   slot strings    <<date, hour, suffix>> for "<date>T<hh>:00:00<suffix>"*)
(*                   with suffix "Z", "+00:00" or "" (naive); any other    *)
(*                   text is a one-element tuple                           *)
(*   booking ids     the number formed by the five digits after the "b"    *)
(*   an exception    the field fault = TRUE of a handler outcome           *)
(***************************************************************************)
EXTENDS Integers, Sequences, FiniteSets, TLC

VARIABLES
    customers,   \* customers_table: customerId -> item
    bookings,    \* bookings_table: bookingId -> item
    now,         \* the wall clock, in epoch seconds
    event,       \* the last request handled
    response,    \* the envelope returned for it
    calls,       \* the store calls the last request made, in order
    raised,      \* whether the last request ended in the except block
    pre,         \* both tables as they were before the last request
    last,        \* summary of the last request: who, what, when, outcome
    registered   \* customerId -> the last name/city successfully registered

vars == <<customers, bookings, now, event, response, calls, raised, pre, last, registered>>

----------------------------------------------------------------------------
(* Bounds and value universes *)

MaxTicks == 1

IdDigits == 5

\* the clock's first reading: one second before the five-digit suffix wraps
StartTime == 17 * 10^8 - 1

NoneV == "None"

EmptyMap == [k \in {} |-> k]

Date == "2024-01-15"

PlaceholderId == "00000"

----------------------------------------------------------------------------
(* dict helpers *)

Get(d, k, default) == IF k \in DOMAIN d THEN d[k] ELSE default

Has(d, k) == k \in DOMAIN d

\* dict.update / {**a, **b}: the keys of b win
Update(a, b) == b @@ a

----------------------------------------------------------------------------
(* datetime and string helpers *)

\* slot.replace("Z", "+00:00")
ReplaceZ(s) == IF Len(s) = 3 /\ s[3] = "Z" THEN <<s[1], s[2], "+00:00">> ELSE s

\* whether datetime.fromisoformat accepts the text
IsIsoFormat(s) == Len(s) = 3 /\ s[3] \in {"+00:00", ""}

\* datetime.fromisoformat
FromIsoFormat(s) == [date |-> s[1], hour |-> s[2], tzinfo |-> s[3]]

\* datetime.isoformat
IsoFormat(d) == <<d.date, d.hour, d.tzinfo>>

\* datetime.strftime("%Y-%m-%d %H:%M:%S")
StrFTime(d) == <<d.date, d.hour>>

\* datetime.replace(hour=i)
ReplaceHour(d, i) == [d EXCEPT !.hour = i]

\* order of the characters that can follow the seconds: end of text < "+" < "Z"
SuffixRank(x) == CASE x = "" -> 0 [] x = "+00:00" -> 1 [] x = "Z" -> 2 [] OTHER -> 3

\* a <= b as DynamoDB compares two strings (byte order); both texts carry the
\* same date, and the hour is two digits wide, so the hour decides, then the suffix
StrLE(a, b) ==
    \/ a[2] < b[2]
    \/ a[2] = b[2] /\ SuffixRank(a[3]) <= SuffixRank(b[3])

\* str.lower
Lower(s) ==
    CASE s = "Plumber" -> "plumber"
      [] s = "Austin" -> "austin"
      [] s = "Dallas" -> "dallas"
      [] OTHER -> s

----------------------------------------------------------------------------
(* The three tables *)

\* tradesperson_table: pre-seeded, no handler writes it
TradespersonTable ==
    "t1" :> [tradesPersonId |-> "t1", name |-> "Pat", trade |-> "plumber",
             hourlyRate |-> 80, city |-> "austin", contactNumber |-> "555-0101"]

\* table.get_item(Key=...): the response dict, with "Item" only when found
GetItem(table, key) ==
    IF key \in DOMAIN table THEN [Item |-> table[key]] ELSE EmptyMap

PutItemIfAbsent(table, key, item) ==
    IF key \in DOMAIN table THEN table ELSE (key :> item) @@ table

\* table.put_item(Item=...): replaces any item with the same key
PutItem(table, key, item) == (key :> item) @@ table

DeleteItemNoOp(table, key) == table

\* table.delete_item(Key=...)
DeleteItem(table, key) == [k \in DOMAIN table \ {key} |-> table[k]]

\* bookings_table.update_item(... "set slot = :slot")
UpdateSlot(table, key, new_slot) == [table EXCEPT ![key].slot = new_slot]

\* the result of a handler: fault = TRUE stands for a raised exception, in which
\* case statusCode and body are not used; the tables are as the handler left them
Out(fault, statusCode, body, cu, bk, cl) ==
    [fault |-> fault, statusCode |-> statusCode, body |-> body,
     customers |-> cu, bookings |-> bk, calls |-> cl]

Raise(cu, bk, cl) == Out(TRUE, 0, EmptyMap, cu, bk, cl)

Return(statusCode, body, cu, bk, cl) == Out(FALSE, statusCode, body, cu, bk, cl)

\* the timestamp's last five digits; the "b" in front is left out
BookingId(t) == t % (10 ^ IdDigits)

----------------------------------------------------------------------------
(* The nine operation handlers.  failAt = n makes the n-th store call of    *)
(* the request raise (0: every call is served).                             *)

get_current_date_time ==
    Return(200,
           [currentDateTime |-> <<"str", now>>,
            currentDateTimeISO |-> <<"iso", now>>,
            currentTimestamp |-> now,
            formattedDate |-> <<"%A, %B %d, %Y, %I:%M:%S %p %Z", now>>],
           customers, bookings, <<>>)

get_customer_details(customer_id, failAt) ==
    LET cl == << <<"customers", "get_item">> >>
        resp == GetItem(customers, customer_id)
    IN  IF failAt = 1 THEN Raise(customers, bookings, cl)
        ELSE IF ~Has(resp, "Item")
        THEN Return(404, [error |-> <<"Customer not found">>], customers, bookings, cl)
        ELSE Return(200, [customer |-> resp.Item], customers, bookings, cl)

register_customer(customer_id, params, failAt) ==
    LET name == Get(params, "name", NoneV)
        city == Get(params, "city", NoneV)
        cl == << <<"customers", "put_item">> >>
        item == [customerId |-> customer_id, name |-> name, city |-> city]
    IN  IF failAt = 1 THEN Raise(customers, bookings, cl)
        ELSE Return(200,
                    [message |-> "Customer registered successfully",
                     name |-> name, city |-> city],
                    PutItem(customers, customer_id, item), bookings, cl)

search_trades_persons(params, failAt) ==
    LET cl == << <<"tradespersons", "query">> >>
    IN  \* trade.lower() / city.lower() on None
        IF ~Has(params, "trade") \/ ~Has(params, "city")
        THEN Raise(customers, bookings, <<>>)
        ELSE IF failAt = 1 THEN Raise(customers, bookings, cl)
        ELSE LET items == {TradespersonTable[k] : k \in
                             {k \in DOMAIN TradespersonTable :
                                /\ TradespersonTable[k].trade = Lower(params.trade)
                                /\ TradespersonTable[k].city = Lower(params.city)}}
             IN  Return(200, [tradesPersons |-> items, count |-> Cardinality(items)],
                        customers, bookings, cl)

\* the Items of the TradesPersonIdIndex query: tradesPersonId equal, slot between
\* the two texts as given, both ends included
BookedSlots(tradesperson_id, start_slot, end_slot) ==
    {bookings[k].slot : k \in
        {k \in DOMAIN bookings :
            /\ bookings[k].tradesPersonId = tradesperson_id
            /\ StrLE(start_slot, bookings[k].slot)
            /\ StrLE(bookings[k].slot, end_slot)}}

\* the loop over range(i, end_hour)
RECURSIVE AvailableFrom(_, _, _, _)
AvailableFrom(i, end_hour, start, booked_slots) ==
    IF i >= end_hour THEN <<>>
    ELSE LET slot == IsoFormat(ReplaceHour(start, i))
         IN  (IF slot \notin booked_slots THEN <<slot>> ELSE <<>>)
             \o AvailableFrom(i + 1, end_hour, start, booked_slots)

check_availability(params, failAt) ==
    LET cl == << <<"bookings", "query">> >>
    IN  IF ~Has(params, "startSlot") \/ ~IsIsoFormat(ReplaceZ(params.startSlot))
        THEN Raise(customers, bookings, <<>>)
        ELSE IF ~Has(params, "endSlot") \/ ~IsIsoFormat(ReplaceZ(params.endSlot))
        THEN Raise(customers, bookings, <<>>)
        \* a key condition on None is rejected by the store
        ELSE IF failAt = 1 \/ ~Has(params, "tradesPersonId")
        THEN Raise(customers, bookings, cl)
        ELSE LET start == FromIsoFormat(ReplaceZ(params.startSlot))
                 end_hour == FromIsoFormat(ReplaceZ(params.endSlot)).hour
                 booked == BookedSlots(params.tradesPersonId, params.startSlot,
                                       params.endSlot)
             IN  Return(200,
                        [availableTimeSlots |->
                            AvailableFrom(start.hour, end_hour, start, booked)],
                        customers, bookings, cl)

create_booking(customer_id, params, failAt) ==
    LET tradesperson_id == Get(params, "tradesPersonId", NoneV)
        description == Get(params, "description", NoneV)
        booking_id == BookingId(now)
        put == << <<"bookings", "put_item">> >>
        both == put \o << <<"tradespersons", "get_item">> >>
    IN  IF ~Has(params, "slot") \/ ~IsIsoFormat(ReplaceZ(params.slot))
        THEN Raise(customers, bookings, <<>>)
        \* tradesPersonId is a key of TradesPersonIdIndex: an item whose value
        \* for it is not a string is rejected by put_item
        ELSE IF failAt = 1 \/ tradesperson_id = NoneV
        THEN Raise(customers, bookings, put)
        ELSE LET booking == [bookingId |-> booking_id,
                             tradesPersonId |-> tradesperson_id,
                             customerId |-> customer_id,
                             slot |-> IsoFormat(FromIsoFormat(ReplaceZ(params.slot))),
                             description |-> description]
                 written == PutItem(bookings, booking_id, booking)
                 tradesperson_details ==
                     Get(GetItem(TradespersonTable, tradesperson_id), "Item", EmptyMap)
             IN  IF failAt = 2 THEN Raise(customers, written, both)
                 ELSE Return(200,
                             [message |-> "Booking created successfully",
                              bookingId |-> booking_id,
                              tradesPersonName |->
                                  Get(tradesperson_details, "name", "Unknown"),
                              slot |-> params.slot,
                              description |-> description],
                             customers, written, both)

\* the Items of the CustomerIdIndex query, by booking id
CustomerBookings(customer_id) ==
    {k \in DOMAIN bookings : bookings[k].customerId = customer_id}

\* pick: the booking id of response["Items"][0]; the query gives no order, so
\* it is any of the customer's bookings
get_latest_booking(customer_id, failAt, pick) ==
    LET q == << <<"bookings", "query">> >>
        both == q \o << <<"tradespersons", "get_item">> >>
    IN  IF failAt = 1 THEN Raise(customers, bookings, q)
        ELSE IF CustomerBookings(customer_id) = {}
        THEN Return(404, [error |-> <<"No bookings found for this customer">>],
                    customers, bookings, q)
        ELSE IF failAt = 2 THEN Raise(customers, bookings, both)
        ELSE LET item == bookings[pick]
                 tradesperson_details ==
                     Get(GetItem(TradespersonTable, item.tradesPersonId), "Item", EmptyMap)
                 booking_date == StrFTime(FromIsoFormat(ReplaceZ(item.slot)))
             IN  Return(200,
                        [booking |->
                            [bookingId |-> item.bookingId,
                             tradesPersonName |->
                                 Get(tradesperson_details, "name", "Unknown"),
                             tradesPersonTrade |->
                                 Get(tradesperson_details, "trade", "Unknown"),
                             bookingDateTime |-> booking_date,
                             description |-> item.description]],
                        customers, bookings, both)

cancel_booking(params, failAt) ==
    LET c1 == << <<"bookings", "get_item">> >>
        c2 == c1 \o << <<"tradespersons", "get_item">> >>
        c3 == c2 \o << <<"bookings", "delete_item">> >>
    IN  \* a key of None is rejected by the store
        IF failAt = 1 \/ ~Has(params, "bookingId") THEN Raise(customers, bookings, c1)
        ELSE LET booking_id == params.bookingId
                 booking_response == GetItem(bookings, booking_id)
             IN  IF ~Has(booking_response, "Item")
                 THEN Return(404, [error |-> <<"Booking not found">>],
                             customers, bookings, c1)
                 ELSE IF failAt = 2 THEN Raise(customers, bookings, c2)
                 ELSE IF failAt = 3 THEN Raise(customers, bookings, c3)
                 ELSE LET booking == booking_response.Item
                          tradesperson_details ==
                              Get(GetItem(TradespersonTable, booking.tradesPersonId),
                                  "Item", EmptyMap)
                      IN  Return(200,
                                 Update(Update(Update(
                                     [message |-> "Booking cancelled successfully"],
                                     booking), tradesperson_details),
                                     [status |-> "CANCELLED"]),
                                 customers, DeleteItem(bookings, booking_id), c3)

ForbiddenAsUnauthorized(cl) ==
    Return(401, [error |-> <<"Not authorized to update this booking">>],
           customers, bookings, cl)

\* the 403 result of update_booking
Forbidden(cl) ==
    Return(403, [error |-> <<"Not authorized to update this booking">>],
           customers, bookings, cl)

AuthorizedAlways(booking, customer_id) == TRUE

\* not (booking.get("customerId") != customer_id)
Authorized(booking, customer_id) == booking.customerId = customer_id

update_booking(customer_id, params, failAt) ==
    LET c1 == << <<"bookings", "get_item">> >>
        c2 == c1 \o << <<"bookings", "update_item">> >>
        c3 == c2 \o << <<"tradespersons", "get_item">> >>
    IN  IF failAt = 1 \/ ~Has(params, "bookingId") THEN Raise(customers, bookings, c1)
        ELSE LET booking_id == params.bookingId
                 booking_response == GetItem(bookings, booking_id)
             IN  IF ~Has(booking_response, "Item")
                 THEN Return(404, [error |-> <<"Booking not found">>],
                             customers, bookings, c1)
                 ELSE IF ~Authorized(booking_response.Item, customer_id)
                 THEN Forbidden(c1)
                 ELSE IF ~Has(params, "slot") \/ ~IsIsoFormat(ReplaceZ(params.slot))
                 THEN Raise(customers, bookings, c1)
                 ELSE IF failAt = 2 THEN Raise(customers, bookings, c2)
                 ELSE LET booking == booking_response.Item
                          new_slot == IsoFormat(FromIsoFormat(ReplaceZ(params.slot)))
                          written == UpdateSlot(bookings, booking_id, new_slot)
                          tradesperson_details ==
                              Get(GetItem(TradespersonTable, booking.tradesPersonId),
                                  "Item", EmptyMap)
                      IN  IF failAt = 3 THEN Raise(customers, written, c3)
                          ELSE Return(200,
                                      [message |-> "Booking updated successfully",
                                       bookingId |-> booking_id,
                                       tradesPersonName |->
                                           Get(tradesperson_details, "name", "Unknown"),
                                       oldSlot |-> booking.slot,
                                       newSlot |-> new_slot,
                                       description |-> booking.description],
                                      customers, written, c3)

----------------------------------------------------------------------------
(* handler: parameter extraction, dispatch, envelope *)

\* post_params: the properties list flattened to name -> value, the last
\* entry of a name winning
PostParams(e) ==
    LET post_parameters ==
            IF /\ Has(e, "requestBody")
               /\ Has(e.requestBody, "content")
               /\ Has(e.requestBody.content, "application/json")
               /\ Has(e.requestBody.content["application/json"], "properties")
            THEN e.requestBody.content["application/json"].properties
            ELSE <<>>
        names == {post_parameters[i].name : i \in DOMAIN post_parameters}
        lastOf(n) == CHOOSE i \in DOMAIN post_parameters :
                        /\ post_parameters[i].name = n
                        /\ \A j \in DOMAIN post_parameters :
                              post_parameters[j].name = n => j <= i
    IN  [n \in names |-> post_parameters[lastOf(n)].value]

\* event.get("sessionAttributes", {}).get("phone-number", "00000")
CustomerId(e) == Get(Get(e, "sessionAttributes", EmptyMap), "phone-number", PlaceholderId)

Operations ==
    {"/get-current-datetime", "/get-customer-details", "/register-customer",
     "/search-trades-persons", "/check-availability", "/create-booking",
     "/get-latest-booking", "/cancel-booking", "/update-booking"}

UnsupportedOperationNotFound(api_path) ==
    [fault |-> FALSE, response_body |-> [error |-> <<"Not found">>],
     http_status_code |-> 404, additional |-> EmptyMap,
     customers |-> customers, bookings |-> bookings, calls |-> <<>>]

\* the else branch of the routing
UnsupportedOperation(api_path) ==
    [fault |-> FALSE,
     response_body |-> [error |-> <<"Unsupported operation: ", api_path>>],
     http_status_code |-> 400, additional |-> EmptyMap,
     customers |-> customers, bookings |-> bookings, calls |-> <<>>]

\* a handler's outcome as the routing branch leaves it
Routed(out, additional) ==
    [fault |-> out.fault,
     response_body |-> [statusCode |-> out.statusCode, body |-> out.body],
     http_status_code |-> out.statusCode, additional |-> additional,
     customers |-> out.customers, bookings |-> out.bookings, calls |-> out.calls]

\* the if/elif chain on api_path
Dispatch(api_path, customer_id, post_params, failAt, pick) ==
    CASE api_path = "/get-current-datetime" ->
            Routed(get_current_date_time, EmptyMap)
      [] api_path = "/get-customer-details" ->
            LET out == get_customer_details(customer_id, failAt)
            IN  Routed(out,
                       IF ~out.fault /\ out.statusCode = 200
                       THEN [customerName |-> out.body.customer.name,
                             customerCity |-> out.body.customer.city]
                       ELSE EmptyMap)
      [] api_path = "/register-customer" ->
            LET out == register_customer(customer_id, post_params, failAt)
            IN  Routed(out,
                       IF ~out.fault
                       THEN [customerName |-> out.body.name,
                             customerCity |-> out.body.city]
                       ELSE EmptyMap)
      [] api_path = "/search-trades-persons" ->
            Routed(search_trades_persons(post_params, failAt), EmptyMap)
      [] api_path = "/check-availability" ->
            Routed(check_availability(post_params, failAt), EmptyMap)
      [] api_path = "/create-booking" ->
            Routed(create_booking(customer_id, post_params, failAt), EmptyMap)
      [] api_path = "/get-latest-booking" ->
            Routed(get_latest_booking(customer_id, failAt, pick), EmptyMap)
      [] api_path = "/cancel-booking" ->
            Routed(cancel_booking(post_params, failAt), EmptyMap)
      [] api_path = "/update-booking" ->
            Routed(update_booking(customer_id, post_params, failAt), EmptyMap)
      [] OTHER -> UnsupportedOperation(api_path)

\* the action_response block, shared by both paths
ActionResponse(e, http_status_code, body) ==
    [actionGroup |-> Get(e, "actionGroup", NoneV),
     apiPath |-> Get(e, "apiPath", NoneV),
     httpMethod |-> Get(e, "httpMethod", NoneV),
     httpStatusCode |-> http_status_code,
     responseBody |-> ("application/json" :> [body |-> body])]

PromptSessionAttributesNoIdentity(e, customer_id, additional) ==
    Update(Get(e, "promptSessionAttributes", EmptyMap), additional)

\* the three update() calls on the request's prompt attributes
PromptSessionAttributes(e, customer_id, additional) ==
    Update(Update(Update(Get(e, "promptSessionAttributes", EmptyMap),
                         [customerId |-> customer_id]),
                  [customerPhoneNumber |-> customer_id]),
           additional)

\* the envelope built at the end of the try block
ApiResponse(e, customer_id, routed) ==
    [messageVersion |-> "1.0",
     response |-> ActionResponse(e, routed.http_status_code,
                                 Get(routed.response_body, "body", routed.response_body)),
     sessionAttributes |-> Get(e, "sessionAttributes", EmptyMap),
     promptSessionAttributes |->
         PromptSessionAttributes(e, customer_id, routed.additional)]

ErrorResponseLeaky(e) ==
    [messageVersion |-> "1.0",
     response |-> ActionResponse(e, 200, [error |-> <<"Internal server error">>]),
     sessionAttributes |-> EmptyMap,
     promptSessionAttributes |-> Get(e, "promptSessionAttributes", EmptyMap)]

\* the envelope built in the except block
ErrorResponse(e) ==
    [messageVersion |-> "1.0",
     response |-> ActionResponse(e, 500, [error |-> <<"Internal server error">>]),
     sessionAttributes |-> Get(e, "sessionAttributes", EmptyMap),
     promptSessionAttributes |-> Get(e, "promptSessionAttributes", EmptyMap)]

----------------------------------------------------------------------------
(* Bookkeeping of the verification: not program state *)

NoRequest == [op |-> "none", customerId |-> NoneV, status |-> 0, bookingId |-> -1, at |-> 0]

\* the booking id a request names (cancel, update) or was given (create)
BookingIdOf(e, routed) ==
    IF Get(e, "apiPath", NoneV) = "/create-booking"
    THEN IF ~routed.fault THEN routed.response_body.body.bookingId ELSE -1
    ELSE Get(PostParams(e), "bookingId", -1)

Summary(e, routed) ==
    [op |-> Get(e, "apiPath", NoneV), customerId |-> CustomerId(e),
     status |-> IF routed.fault THEN 500 ELSE routed.http_status_code,
     bookingId |-> BookingIdOf(e, routed), at |-> now]

Registered(e, routed) ==
    IF Get(e, "apiPath", NoneV) = "/register-customer" /\ ~routed.fault
       /\ routed.http_status_code = 200
    THEN (CustomerId(e) :> [name |-> Get(PostParams(e), "name", NoneV),
                            city |-> Get(PostParams(e), "city", NoneV)]) @@ registered
    ELSE registered

----------------------------------------------------------------------------
(* One request, start to finish *)

\* the end of a request: the envelope is returned and the tables are as the
\* operation left them
Finish(e, customer_id, routed) ==
    /\ event' = e
    /\ response' = IF routed.fault THEN ErrorResponse(e)
                   ELSE ApiResponse(e, customer_id, routed)
    /\ raised' = routed.fault
    /\ customers' = routed.customers
    /\ bookings' = routed.bookings
    /\ calls' = routed.calls
    /\ pre' = [customers |-> customers, bookings |-> bookings]
    /\ last' = Summary(e, routed)
    /\ registered' = Registered(e, routed)
    /\ UNCHANGED now

handler(e, failAt, pick) ==
    Finish(e, CustomerId(e),
           Dispatch(Get(e, "apiPath", NoneV), CustomerId(e), PostParams(e), failAt, pick))

----------------------------------------------------------------------------
(* Requests *)

\* who sends a request: a first turn without session or prompt attributes
\* (the handler falls back to the placeholder identity), or a later turn of a
\* caller with a phone number
Callers == {"anonymous", "c1"}

\* the session part of a caller's request; the later turn carries the prompt
\* attributes an earlier turn left
Session(caller) ==
    IF caller = "anonymous" THEN EmptyMap
    ELSE [sessionAttributes |-> ("phone-number" :> caller),
          promptSessionAttributes |->
              [customerId |-> "stale", customerName |-> "Old", customerCity |-> "Oldtown"]]

\* one entry of the properties list
P(n, v) == <<[name |-> n, value |-> v]>>

Slot(h, z) == <<Date, h, z>>

NotADate == <<"tomorrow at nine">>

Event(api_path, caller, properties) ==
    [actionGroup |-> "PlumbingActions", httpMethod |-> "POST"]
    @@ api_path @@ Session(caller)
    @@ (IF properties = <<>> THEN EmptyMap
        ELSE [requestBody |->
                 [content |-> ("application/json" :> [properties |-> properties])]])

Path(p) == [apiPath |-> p]

\* the ids create-booking can hand out within the clock's range
IssuedIds == {BookingId(StartTime + i) : i \in 0..MaxTicks}

\* the id of the second before the clock's first reading: no booking has it
UnknownId == BookingId(StartTime - 1)

----------------------------------------------------------------------------
(* Actions: one per operation, the unsupported path, and the clock.  Each   *)
(* takes the requests and the store faults it is tried with.                *)

\* the requests of one operation: each caller with each property list
Requests(api_path, props) == {Event(api_path, c, p) : c \in Callers, p \in props}

DatetimeRequests == Requests(Path("/get-current-datetime"), {<<>>})

DetailsRequests == Requests(Path("/get-customer-details"), {<<>>})

LatestRequests == Requests(Path("/get-latest-booking"), {<<>>})

\* a path the handler does not route, and no path at all
UnsupportedRequests ==
    Requests(Path("/delete-customer"), {<<>>}) \cup Requests(EmptyMap, {<<>>})

GetCurrentDatetime ==
    \E e \in DatetimeRequests : handler(e, 0, -1)

GetCustomerDetails(fails) ==
    \E e \in DetailsRequests, failAt \in fails : handler(e, failAt, -1)

RegisterCustomer(requests, fails) ==
    \E e \in requests, failAt \in fails : handler(e, failAt, -1)

SearchTradesPersons(requests, fails) ==
    \E e \in requests, failAt \in fails : handler(e, failAt, -1)

CheckAvailability(requests, fails) ==
    \E e \in requests, failAt \in fails : handler(e, failAt, -1)

CreateBooking(requests, fails) ==
    \E e \in requests, failAt \in fails : handler(e, failAt, -1)

\* the query's first item is any of the caller's bookings
GetLatestBooking(fails) ==
    \E e \in LatestRequests, failAt \in fails :
        LET mine == CustomerBookings(CustomerId(e))
        IN  \E pick \in (IF mine = {} THEN {-1} ELSE mine) :
                handler(e, failAt, pick)

CancelBooking(requests, fails) ==
    \E e \in requests, failAt \in fails : handler(e, failAt, -1)

UpdateBooking(requests, fails) ==
    \E e \in requests, failAt \in fails : handler(e, failAt, -1)

Unsupported ==
    \E e \in UnsupportedRequests : handler(e, 0, -1)

Tick ==
    /\ now < StartTime + MaxTicks
    /\ now' = now + 1
    /\ UNCHANGED <<customers, bookings, event, response, calls, raised, pre, last,
                   registered>>

Init ==
    /\ customers = EmptyMap
    /\ bookings = EmptyMap
    /\ now = StartTime
    /\ event = EmptyMap
    /\ response = EmptyMap
    /\ calls = <<>>
    /\ raised = FALSE
    /\ pre = [customers |-> EmptyMap, bookings |-> EmptyMap]
    /\ last = NoRequest
    /\ registered = EmptyMap

----------------------------------------------------------------------------
(* Spec: every operation, with parameters present, absent and malformed,    *)
(* and every store call failing or not.  The clock stands still.            *)

Faults(n) == 0..n

FirstId == BookingId(StartTime)

RegisterProps == {P("name", "Jane") \o P("city", "Austin"), <<>>}

RegisterRequests == Requests(Path("/register-customer"), RegisterProps)

SearchProps == {P("trade", "Plumber") \o P("city", "Austin"), P("trade", "Plumber")}

SearchRequests == Requests(Path("/search-trades-persons"), SearchProps)

AvailabilityProps ==
    {P("tradesPersonId", "t1") \o P("startSlot", Slot(9, "Z")) \o P("endSlot", Slot(12, "Z")),
     P("tradesPersonId", "t1") \o P("startSlot", Slot(9, "Z")),
     P("tradesPersonId", "t1") \o P("startSlot", NotADate) \o P("endSlot", Slot(12, "Z")),
     P("startSlot", Slot(9, "Z")) \o P("endSlot", Slot(12, "Z"))}

AvailabilityRequests == Requests(Path("/check-availability"), AvailabilityProps)

CreateProps ==
    {P("tradesPersonId", "t1") \o P("slot", Slot(9, "Z")) \o P("description", "leaking tap"),
     P("tradesPersonId", "t9") \o P("slot", Slot(9, "Z")),
     P("tradesPersonId", "t1") \o P("slot", NotADate),
     P("tradesPersonId", "t1"),
     P("slot", Slot(9, "Z"))}

CreateRequests == Requests(Path("/create-booking"), CreateProps)

CancelProps == {P("bookingId", FirstId), P("bookingId", UnknownId), <<>>}

CancelRequests == Requests(Path("/cancel-booking"), CancelProps)

UpdateProps ==
    {P("bookingId", FirstId) \o P("slot", Slot(11, "Z")),
     P("bookingId", FirstId) \o P("slot", NotADate),
     P("bookingId", FirstId),
     P("bookingId", UnknownId) \o P("slot", Slot(11, "Z")),
     P("slot", Slot(11, "Z"))}

UpdateRequests == Requests(Path("/update-booking"), UpdateProps)

Next ==
    \/ GetCurrentDatetime
    \/ GetCustomerDetails(Faults(1))
    \/ RegisterCustomer(RegisterRequests, Faults(1))
    \/ SearchTradesPersons(SearchRequests, Faults(1))
    \/ CheckAvailability(AvailabilityRequests, Faults(1))
    \/ CreateBooking(CreateRequests, Faults(2))
    \/ GetLatestBooking(Faults(2))
    \/ CancelBooking(CancelRequests, Faults(3))
    \/ UpdateBooking(UpdateRequests, Faults(3))
    \/ Unsupported

Spec == Init /\ [][Next]_vars

----------------------------------------------------------------------------
(* SpecCustomers: the customers table under registrations by two            *)
(* identities, with two cities to tell a later registration from an earlier *)
(* one; create-booking is there as a request that names a customer without  *)
(* registering one.                                                         *)

RegisterTwice ==
    {P("name", "Jane") \o P("city", "Austin"),
     P("name", "Jane") \o P("city", "Dallas"),
     P("city", "Austin")}

RegisterTwiceRequests == Requests(Path("/register-customer"), RegisterTwice)

CreateOnce ==
    {P("tradesPersonId", "t1") \o P("slot", Slot(9, "Z")) \o P("description", "leaking tap")}

CreateOnceRequests == Requests(Path("/create-booking"), CreateOnce)

NextCustomers ==
    \/ GetCustomerDetails(Faults(1))
    \/ RegisterCustomer(RegisterTwiceRequests, Faults(1))
    \/ CreateBooking(CreateOnceRequests, Faults(0))
    \/ Unsupported

SpecCustomers == Init /\ [][NextCustomers]_vars

----------------------------------------------------------------------------
(* SpecBookings: the bookings table under the five booking operations of    *)
(* two identities while the clock advances.                                 *)

BookingSlots == {Slot(9, "Z"), Slot(11, "+00:00")}

CreateAt ==
    {P("tradesPersonId", "t1") \o P("slot", s) \o P("description", "leaking tap") :
        s \in BookingSlots}

CreateAtRequests == Requests(Path("/create-booking"), CreateAt)

CancelAny == {P("bookingId", id) : id \in IssuedIds \cup {UnknownId}}

CancelAnyRequests == Requests(Path("/cancel-booking"), CancelAny)

UpdateAny ==
    {P("bookingId", id) \o P("slot", s) :
        id \in IssuedIds \cup {UnknownId}, s \in {Slot(11, "Z"), NotADate}}

UpdateAnyRequests == Requests(Path("/update-booking"), UpdateAny)

AvailabilityRanges ==
    {P("tradesPersonId", "t1") \o P("startSlot", Slot(9, z)) \o P("endSlot", Slot(12, z)) :
        z \in {"Z", "+00:00"}}

AvailabilityRangeRequests == Requests(Path("/check-availability"), AvailabilityRanges)

NextBookings ==
    \/ CreateBooking(CreateAtRequests, Faults(0))
    \/ GetLatestBooking(Faults(0))
    \/ CancelBooking(CancelAnyRequests, Faults(0))
    \/ UpdateBooking(UpdateAnyRequests, Faults(1))
    \/ CheckAvailability(AvailabilityRangeRequests, Faults(0))
    \/ Tick

SpecBookings == Init /\ [][NextBookings]_vars

----------------------------------------------------------------------------
(* Properties *)

Served == last.op # "none"

Status == response.response.httpStatusCode

Body == response.response.responseBody["application/json"].body

Params == PostParams(event)

\* the caller identity as the request states it
Caller ==
    IF Has(event, "sessionAttributes") /\ Has(event.sessionAttributes, "phone-number")
    THEN event.sessionAttributes["phone-number"]
    ELSE "00000"

SessionIn == IF Has(event, "sessionAttributes") THEN event.sessionAttributes ELSE EmptyMap

PromptIn ==
    IF Has(event, "promptSessionAttributes") THEN event.promptSessionAttributes ELSE EmptyMap

Echoed(field) == IF Has(event, field) THEN event[field] ELSE NoneV

\* C1: every request, whatever its path and parameters and whichever store call
\* fails, is answered with an envelope of one shape that echoes actionGroup,
\* apiPath and httpMethod; a request that ended in a fault is answered with
\* status 500, the body "Internal server error" and the request's
\* sessionAttributes, and only such a request is answered with 500
C1_UniformEnvelope ==
    Served =>
        /\ DOMAIN response =
              {"messageVersion", "response", "sessionAttributes", "promptSessionAttributes"}
        /\ response.messageVersion = "1.0"
        /\ DOMAIN response.response =
              {"actionGroup", "apiPath", "httpMethod", "httpStatusCode", "responseBody"}
        /\ response.response.actionGroup = Echoed("actionGroup")
        /\ response.response.apiPath = Echoed("apiPath")
        /\ response.response.httpMethod = Echoed("httpMethod")
        /\ Status \in Nat
        /\ DOMAIN response.response.responseBody = {"application/json"}
        /\ DOMAIN response.response.responseBody["application/json"] = {"body"}
        /\ response.sessionAttributes = SessionIn
        /\ raised <=> Status = 500
        /\ raised => Body = [error |-> <<"Internal server error">>]

\* a store call failed after create-booking had written the booking
C1_Witness ==
    /\ Served
    /\ raised
    /\ last.op = "/create-booking"
    /\ bookings # pre.bookings
    /\ Status = 500

DeclaredStatuses(op) ==
    CASE op = "/get-customer-details" -> {200, 404}
      [] op = "/get-latest-booking" -> {200, 404}
      [] op = "/cancel-booking" -> {200, 404}
      [] op = "/update-booking" -> {200, 403, 404}
      [] OTHER -> {200}

C3_UnsupportedIs400 ==
    (Served /\ last.op \notin Operations) =>
        /\ Status = 400
        /\ Body = [error |-> <<"Unsupported operation: ", Echoed("apiPath")>>]
        /\ ~raised
        /\ calls = <<>>
        /\ customers = pre.customers
        /\ bookings = pre.bookings

\* a request without apiPath, answered over tables that hold records
C3_Witness ==
    /\ Served
    /\ ~Has(event, "apiPath")
    /\ Status = 400
    /\ customers # EmptyMap
    /\ bookings # EmptyMap

\* C5: without a fault, sessionAttributes is the request's, and
\* promptSessionAttributes is the request's with customerId and
\* customerPhoneNumber set to the caller identity; customerName and customerCity
\* are set, to the customer's name and city, exactly when the operation is
\* get-customer-details or register-customer and the status is 200
C5_SessionAttributes ==
    (Served /\ ~raised) =>
        LET out == response.promptSessionAttributes
            identity == {"customerId", "customerPhoneNumber"}
            derived == IF /\ last.op \in {"/get-customer-details", "/register-customer"}
                          /\ Status = 200
                       THEN {"customerName", "customerCity"} ELSE {}
        IN  /\ response.sessionAttributes = SessionIn
            /\ DOMAIN out = DOMAIN PromptIn \cup identity \cup derived
            /\ out.customerId = Caller
            /\ out.customerPhoneNumber = Caller
            /\ derived # {} =>
                  /\ out.customerName = customers[Caller].name
                  /\ out.customerCity = customers[Caller].city
            /\ \A k \in DOMAIN PromptIn \ (identity \cup derived) : out[k] = PromptIn[k]

\* get-latest-booking found a booking: the name and city of the earlier turn stay
C5_Witness ==
    /\ Served
    /\ ~raised
    /\ last.op = "/get-latest-booking"
    /\ Status = 200
    /\ Has(PromptIn, "customerName")
    /\ response.promptSessionAttributes.customerName = "Old"
    /\ response.promptSessionAttributes.customerId = "c1"

\* C4: get-customer-details answers 404 exactly when no register-customer has
\* been carried out for the identity, and otherwise 200 with the name and city
\* of the latest one; register-customer answers 200 whatever was registered
\* before, replaces the identity's record and leaves every other record alone
C4_LastRegistrationWins ==
    /\ (Served /\ last.op = "/get-customer-details" /\ ~raised) =>
          /\ Status = 404 <=> Caller \notin DOMAIN registered
          /\ Caller \in DOMAIN registered =>
                /\ Status = 200
                /\ Body.customer.name = registered[Caller].name
                /\ Body.customer.city = registered[Caller].city
    /\ (Served /\ last.op = "/register-customer" /\ ~raised) =>
          /\ Status = 200
          /\ customers[Caller].name = Get(Params, "name", NoneV)
          /\ customers[Caller].city = Get(Params, "city", NoneV)
          /\ DOMAIN customers = DOMAIN pre.customers \cup {Caller}
          /\ \A other \in DOMAIN pre.customers \ {Caller} :
                customers[other] = pre.customers[other]

\* a registration in Dallas replaced the same identity's registration in
\* Austin while another identity's record stayed
C4_Witness ==
    /\ Served
    /\ last.op = "/register-customer"
    /\ Status = 200
    /\ Caller \in DOMAIN pre.customers
    /\ pre.customers[Caller].city = "Austin"
    /\ customers[Caller].city = "Dallas"
    /\ \E other \in DOMAIN customers : other # Caller

\* C6: update-booking on a booking of another customer leaves the bookings
\* table as it was, whatever slot is given, and answers 403
C6_ForeignUpdateRefused ==
    (/\ Served
     /\ last.op = "/update-booking"
     /\ Has(Params, "bookingId")
     /\ Params.bookingId \in DOMAIN pre.bookings
     /\ pre.bookings[Params.bookingId].customerId # Caller) =>
        /\ bookings = pre.bookings
        /\ ~raised => Status = 403

\* the refused update carried a slot that is no date
C6_Witness ==
    /\ Served
    /\ last.op = "/update-booking"
    /\ Status = 403
    /\ Has(Params, "slot")
    /\ Params.slot = NotADate
    /\ pre.bookings[Params.bookingId].customerId # Caller
    /\ bookings = pre.bookings

\* the outcome of a cancel-booking request, against the table before it
CancelOutcome ==
    (Served /\ last.op = "/cancel-booking" /\ Has(Params, "bookingId") /\ ~raised) =>
        IF Params.bookingId \in DOMAIN pre.bookings
        THEN /\ Status = 200
             /\ DOMAIN bookings = DOMAIN pre.bookings \ {Params.bookingId}
             /\ \A k \in DOMAIN bookings : bookings[k] = pre.bookings[k]
        ELSE /\ Status = 404
             /\ bookings = pre.bookings
             /\ customers = pre.customers

\* the request after a cancel-booking that answered 200 is a
\* get-latest-booking of the cancelled booking's owner
LatestAfterCancel ==
    /\ Served
    /\ last.op = "/cancel-booking"
    /\ last.status = 200
    /\ last'.op = "/get-latest-booking"
    /\ last'.customerId = Body.customerId
    /\ ~raised'

\* C7: cancel-booking answers 404 and changes nothing when the id is not in the
\* table; otherwise it answers 200 and removes that booking and no other, and a
\* get-latest-booking of the owner that follows answers 404 or another booking
C7_CancelRemoves ==
    [][/\ CancelOutcome'
       /\ LatestAfterCancel =>
             \/ Status' = 404
             \/ Status' = 200 /\ Body'.booking.bookingId # last.bookingId]_vars

\* a booking was cancelled and its owner still has another one
C7_Witness ==
    /\ Served
    /\ last.op = "/cancel-booking"
    /\ Status = 200
    /\ last.bookingId \notin DOMAIN bookings
    /\ CustomerBookings(Body.customerId) # {}

\* the instant a text with a UTC suffix ("Z" or "+00:00") denotes
Instant(s) == <<s[1], s[2]>>

HasBookingAt(tradesperson_id, instant) ==
    \E k \in DOMAIN bookings :
        /\ bookings[k].tradesPersonId = tradesperson_id
        /\ Instant(bookings[k].slot) = instant

\* the hours from h up to end_hour at which the tradesperson has no booking
RECURSIVE FreeHours(_, _, _, _)
FreeHours(h, end_hour, date, tradesperson_id) ==
    IF h >= end_hour THEN <<>>
    ELSE (IF HasBookingAt(tradesperson_id, <<date, h>>) THEN <<>>
          ELSE << <<date, h, "+00:00">> >>)
         \o FreeHours(h + 1, end_hour, date, tradesperson_id)

\* C8: availableTimeSlots holds the instant of every whole hour of
\* [start_hour, end_hour) at which the tradesperson has no booking, and of no
\* hour at which the tradesperson has one
C8_AvailableIsComplement ==
    (Served /\ last.op = "/check-availability" /\ ~raised) =>
        Body.availableTimeSlots =
            FreeHours(Params.startSlot[2], Params.endSlot[2], Params.startSlot[1],
                      Params.tradesPersonId)

\* the request after a create-booking that answered 200 is a
\* get-latest-booking of the same identity
LatestAfterCreate ==
    /\ Served
    /\ last.op = "/create-booking"
    /\ last.status = 200
    /\ last'.op = "/get-latest-booking"
    /\ last'.customerId = last.customerId
    /\ ~raised'

\* C9: a get-latest-booking that follows a create-booking of the same identity
\* answers 200 with the booking just created: its id, its slot and the
\* tradesperson's name
C9_LatestIsCreated ==
    [][LatestAfterCreate =>
          /\ Status' = 200
          /\ Body'.booking.bookingId = last.bookingId
          /\ Body'.booking.bookingDateTime = Instant(ReplaceZ(Params.slot))
          /\ Body'.booking.tradesPersonName = Body.tradesPersonName]_vars

\* two create-booking requests in a row, both answered 200, read the same second
CreatedInSameSecond ==
    /\ Served
    /\ last.op = "/create-booking"
    /\ last.status = 200
    /\ last'.op = "/create-booking"
    /\ last'.status = 200
    /\ last'.at = last.at
    /\ now' = now

\* C10: two create-booking requests that read the same second get the same
\* id and both answer 200 "Booking created successfully"; the later one
\* replaces the earlier booking, so the table holds no more bookings than before
C10_SameSecondOverwrites ==
    [][CreatedInSameSecond =>
          /\ last'.bookingId = last.bookingId
          /\ Body.message = "Booking created successfully"
          /\ Body'.message = "Booking created successfully"
          /\ DOMAIN bookings' = DOMAIN bookings
          /\ bookings'[last'.bookingId].customerId = last'.customerId
          /\ bookings'[last'.bookingId].slot = IsoFormat(FromIsoFormat(ReplaceZ(Params'.slot)))
          /\ \A k \in DOMAIN bookings \ {last.bookingId} : bookings'[k] = bookings[k]]_vars

\* a create-booking answered 200 after replacing another caller's booking
C10_Witness ==
    /\ Served
    /\ last.op = "/create-booking"
    /\ Status = 200
    /\ last.bookingId \in DOMAIN pre.bookings
    /\ pre.bookings[last.bookingId].customerId # last.customerId
    /\ Cardinality(DOMAIN bookings) = Cardinality(DOMAIN pre.bookings)

====
